---- MODULE Spec2Model ----
(***************************************************************************)
(* The cafe directory of main.py: one table `cafes`, four forms, and the   *)
(* route handlers over them.                                               *)
(*                                                                         *)
(* A text value is a sequence of characters, each character a one-element  *)
(* string; a character outside printable ASCII is written by its code      *)
(* point ("U+00A0"), the currency glyph as itself.  Python's None is a     *)
(* value no text equals.                                                   *)
(*                                                                         *)
(* A state is the table, the request suspended between two of its steps    *)
(* (update_cafe reads in one session, writes in another and loads the name *)
(* again after its commit; a delete by key reads the row before it deletes *)
(* it; a closure report waits for the mail relay), and the record of the   *)
(* step just taken: its inputs, the table it found (old), and what it      *)
(* answered (response, JSON payload, rendered form, flashed notices, mail  *)
(* accepted by the relay, the branches gone through).                      *)
(***************************************************************************)
EXTENDS Naturals, Sequences, FiniteSets, TLC

VARIABLES table, pending, old, req, resp, payload, shown, flashes, outbox, trace

vars == <<table, pending, old, req, resp, payload, shown, flashes, outbox, trace>>

\* ------------------------------------------------------------- bounds
\* Identifiers handed out by the table stay at or below MaxId.
MaxId == 2

\* ---------------------------------------------------------------- text
\* The text written s in ASCII, as a sequence of characters.
Text(s) == [i \in 1..Len(s) |-> SubSeq(s, i, i)]

None == <<"None">>
Glyph == <<"£">>
API_KEY == Text("TopSecretAPIKey")
Choices == {Text("YES"), Text("NO")}
SUBMIT_METHODS == {"POST", "PUT", "PATCH", "DELETE"}

\* The characters str.strip() removes (those str.isspace() holds of).
Whitespace ==
    {" ", "\t", "\n", "\r", "\f", "U+000B", "U+001C", "U+001D", "U+001E",
     "U+001F", "U+0085", "U+00A0", "U+1680", "U+2000", "U+2001", "U+2002",
     "U+2003", "U+2004", "U+2005", "U+2006", "U+2007", "U+2008", "U+2009",
     "U+200A", "U+2028", "U+2029", "U+202F", "U+205F", "U+3000"}
Lower == {"a","b","c","d","e","f","g","h","i","j","k","l","m",
          "n","o","p","q","r","s","t","u","v","w","x","y","z"}
Upper == {"A","B","C","D","E","F","G","H","I","J","K","L","M",
          "N","O","P","Q","R","S","T","U","V","W","X","Y","Z"}
Digits == {"0","1","2","3","4","5","6","7","8","9"}
\* The characters outside ASCII whose case folding is an ASCII letter
\* (dotted capital I, dotless i, long s, Kelvin sign): re.IGNORECASE makes
\* [a-z] match them too.
Folded == {"U+0130", "U+0131", "U+017F", "U+212A"}
\* [a-z] under re.IGNORECASE
Letters == Lower \cup Upper \cup Folded
\* [a-z0-9_] under re.IGNORECASE
WordChars == Letters \cup Digits \cup {"_"}

RECURSIVE lstrip(_)
lstrip(s) ==
    IF Len(s) > 0 /\ s[1] \in Whitespace
    THEN lstrip(SubSeq(s, 2, Len(s)))
    ELSE s

RECURSIVE rstrip(_)
rstrip(s) ==
    IF Len(s) > 0 /\ s[Len(s)] \in Whitespace
    THEN rstrip(SubSeq(s, 1, Len(s) - 1))
    ELSE s

strip(s) == rstrip(lstrip(s))

startswith(s, prefix) ==
    /\ Len(s) >= Len(prefix)
    /\ SubSeq(s, 1, Len(prefix)) = prefix

\* Length of the longest prefix of s made of characters of `set`.
RECURSIVE PrefixIn(_, _)
PrefixIn(s, set) ==
    IF Len(s) > 0 /\ s[1] \in set
    THEN 1 + PrefixIn(SubSeq(s, 2, Len(s)), set)
    ELSE 0

\* Length of the longest prefix of s holding no character of `set`.
RECURSIVE PrefixNotIn(_, _)
PrefixNotIn(s, set) ==
    IF Len(s) > 0 /\ s[1] \notin set
    THEN 1 + PrefixNotIn(SubSeq(s, 2, Len(s)), set)
    ELSE 0

AllIn(s, set) == \A i \in 1..Len(s) : s[i] \in set

\* str.split("."): the parts of h between its dots.
RECURSIVE Labels(_)
Labels(h) ==
    LET n == PrefixNotIn(h, {"."})
    IN  IF n = Len(h)
        THEN <<h>>
        ELSE <<SubSeq(h, 1, n)>> \o Labels(SubSeq(h, n + 2, Len(h)))

\* A regular expression's $ also matches before one final newline: the
\* text the pattern has to cover.
BeforeDollar(s) ==
    IF Len(s) > 0 /\ s[Len(s)] = "\n" THEN SubSeq(s, 1, Len(s) - 1) ELSE s

\* int() of a run of decimal digits.
DigitValue(d) == CHOOSE n \in 0..9 : Text("0123456789")[n + 1] = d

RECURSIVE int(_)
int(s) ==
    IF s = <<>> THEN 0
    ELSE 10 * int(SubSeq(s, 1, Len(s) - 1)) + DigitValue(s[Len(s)])

\* ------------------------------------------------------ the idna codec
\* The characters outside ASCII that texts of this model are written with,
\* and their code points.
CodePoint ==
    [c \in {"£", "U+0085", "U+00A0", "U+00E9", "U+0130", "U+0131", "U+017F",
            "U+1680", "U+2000", "U+2001", "U+2002", "U+2003", "U+2004",
            "U+2005", "U+2006", "U+2007", "U+2008", "U+2009", "U+200A",
            "U+2028", "U+2029", "U+202F", "U+205F", "U+212A", "U+3000",
            "U+3002", "U+FF0E", "U+FF61"} |->
        CASE c = "£" -> 163
          [] c = "U+0085" -> 133
          [] c = "U+00A0" -> 160
          [] c = "U+00E9" -> 233
          [] c = "U+0130" -> 304
          [] c = "U+0131" -> 305
          [] c = "U+017F" -> 383
          [] c = "U+1680" -> 5760
          [] c = "U+2000" -> 8192
          [] c = "U+2001" -> 8193
          [] c = "U+2002" -> 8194
          [] c = "U+2003" -> 8195
          [] c = "U+2004" -> 8196
          [] c = "U+2005" -> 8197
          [] c = "U+2006" -> 8198
          [] c = "U+2007" -> 8199
          [] c = "U+2008" -> 8200
          [] c = "U+2009" -> 8201
          [] c = "U+200A" -> 8202
          [] c = "U+2028" -> 8232
          [] c = "U+2029" -> 8233
          [] c = "U+202F" -> 8239
          [] c = "U+205F" -> 8287
          [] c = "U+212A" -> 8490
          [] c = "U+3000" -> 12288
          [] c = "U+3002" -> 12290
          [] c = "U+FF0E" -> 65294
          [] c = "U+FF61" -> 65377]

isascii(s) == \A i \in 1..Len(s) : s[i] \notin DOMAIN CodePoint

\* The ASCII characters in code order, from U+0000.
Ascii ==
    <<"U+0000", "U+0001", "U+0002", "U+0003", "U+0004", "U+0005", "U+0006",
      "U+0007", "U+0008", "\t", "\n", "U+000B", "\f", "\r", "U+000E",
      "U+000F", "U+0010", "U+0011", "U+0012", "U+0013", "U+0014", "U+0015",
      "U+0016", "U+0017", "U+0018", "U+0019", "U+001A", "U+001B", "U+001C",
      "U+001D", "U+001E", "U+001F">>
    \o <<" ", "!", "U+0022", "#", "$", "%", "&", "'", "(", ")", "*", "+", ",",
         "-", ".", "/">>
    \o Text("0123456789:;<=>?@ABCDEFGHIJKLMNOPQRSTUVWXYZ")
    \o <<"[", "U+005C", "]", "^", "_", "U+0060">>
    \o Text("abcdefghijklmnopqrstuvwxyz")
    \o <<"{", "|", "}", "~", "U+007F">>

ord(c) ==
    IF c \in DOMAIN CodePoint
    THEN CodePoint[c]
    ELSE (CHOOSE i \in 1..128 : Ascii[i] = c) - 1

\* stringprep.map_table_b2 followed by NFKC, for one character: the code
\* points it turns into.  Case is folded; the spaces outside ASCII become
\* U+0020; dotted capital I becomes i and a combining dot above.
nameprep_map(c) ==
    CASE c \in Upper -> <<ord(c) + 32>>
      [] c \in {"U+00A0", "U+2000", "U+2001", "U+2002", "U+2003", "U+2004",
                "U+2005", "U+2006", "U+2007", "U+2008", "U+2009", "U+200A",
                "U+202F", "U+205F", "U+3000"} -> <<32>>
      [] c = "U+0130" -> <<105, 775>>
      [] c = "U+017F" -> <<115>>
      [] c = "U+212A" -> <<107>>
      [] OTHER -> <<ord(c)>>

\* The characters nameprep prohibits (stringprep tables C.1.2 and C.2.2).
Prohibited == {"U+0085", "U+1680", "U+2028", "U+2029"}

RECURSIVE nameprep(_)
nameprep(label) ==
    IF label = <<>> THEN <<>>
    ELSE nameprep_map(label[1]) \o nameprep(Tail(label))

\* encodings.punycode (RFC 3492) over code points; the output is text.
PunycodeDigits == Text("abcdefghijklmnopqrstuvwxyz0123456789")

\* The threshold of digit j under the bias.
T(j, bias) ==
    LET res == 36 * (j + 1) - bias
    IN  IF res < 1 THEN 1 ELSE IF res > 26 THEN 26 ELSE res

RECURSIVE generate_generalized_integer(_, _, _)
generate_generalized_integer(N, bias, j) ==
    LET t == T(j, bias)
    IN  IF N < t
        THEN <<PunycodeDigits[N + 1]>>
        ELSE <<PunycodeDigits[t + ((N - t) % (36 - t)) + 1]>>
             \o generate_generalized_integer((N - t) \div (36 - t), bias, j + 1)

RECURSIVE adapt_loop(_, _)
adapt_loop(delta, divisions) ==
    IF delta > 455
    THEN adapt_loop(delta \div 35, divisions + 36)
    ELSE divisions + ((36 * delta) \div (delta + 38))

adapt(delta, first, numchars) ==
    LET d == IF first THEN delta \div 700 ELSE delta \div 2
    IN  adapt_loop(d + (d \div numchars), 0)

\* One pass over the code points for the code point n: every occurrence
\* is written as the distance from the one before.  st holds delta, the
\* number of code points done, the bias and the digits so far; b is the
\* number of ASCII code points.  The pass ends with the last code point
\* written.
RECURSIVE punycode_scan(_, _, _, _, _)
punycode_scan(cps, i, n, st, b) ==
    IF i > Len(cps) \/ st.h = Len(cps)
    THEN st
    ELSE LET next ==
                 IF cps[i] < n
                 THEN [st EXCEPT !.delta = @ + 1]
                 ELSE IF cps[i] = n
                      THEN [delta |-> 0,
                            h |-> st.h + 1,
                            bias |-> adapt(st.delta, st.h = b, st.h + 1),
                            out |-> st.out \o generate_generalized_integer(
                                                  st.delta, st.bias, 0)]
                      ELSE st
         IN  punycode_scan(cps, i + 1, n, next, b)

Min(S) == CHOOSE m \in S : \A x \in S : m <= x

RECURSIVE punycode_loop(_, _, _, _)
punycode_loop(cps, n, st, b) ==
    IF st.h >= Len(cps)
    THEN st.out
    ELSE LET m == Min({cps[i] : i \in {k \in 1..Len(cps) : cps[k] >= n}})
             s == punycode_scan(cps, 1, m,
                                [st EXCEPT !.delta = @ + (m - n) * (st.h + 1)],
                                b)
         IN  punycode_loop(cps, m + 1, [s EXCEPT !.delta = @ + 1], b)

chr(n) == Ascii[n + 1]

punycode_encode(cps) ==
    LET base == SelectSeq(cps, LAMBDA x : x < 128)
        text == [i \in 1..Len(base) |-> chr(base[i])]
    IN  (IF base = <<>> THEN <<>> ELSE text \o <<"-">>)
        \o punycode_loop(cps, 128,
                         [delta |-> 0, h |-> Len(base), bias |-> 72,
                          out |-> <<>>],
                         Len(base))

\* A result of the codec: the text, or the UnicodeError it raised.
Encoded(text) == [ok |-> TRUE, text |-> text]
UnicodeError == [ok |-> FALSE, text |-> <<>>]

Sized(text) ==
    IF 0 < Len(text) /\ Len(text) < 64 THEN Encoded(text) ELSE UnicodeError

\* encodings.idna.ToASCII
ToASCII(label) ==
    IF isascii(label)
    THEN Sized(label)
    ELSE IF \E i \in 1..Len(label) : label[i] \in Prohibited
         THEN UnicodeError
         ELSE LET cps == nameprep(label)
              IN  IF \A i \in 1..Len(cps) : cps[i] < 128
                  THEN Sized([i \in 1..Len(cps) |-> chr(cps[i])])
                  ELSE IF /\ Len(cps) >= 4
                          /\ SubSeq(cps, 1, 4) = <<120, 110, 45, 45>>
                       THEN UnicodeError
                       ELSE Sized(Text("xn--") \o punycode_encode(cps))

\* The parts of h between the characters of `dots`.
RECURSIVE Split(_, _)
Split(h, dots) ==
    LET n == PrefixNotIn(h, dots)
    IN  IF n = Len(h)
        THEN <<h>>
        ELSE <<SubSeq(h, 1, n)>> \o Split(SubSeq(h, n + 2, Len(h)), dots)

RECURSIVE Join(_)
Join(labels) ==
    IF Len(labels) = 1 THEN labels[1]
    ELSE labels[1] \o <<".">> \o Join(Tail(labels))

\* str.encode("idna"): an ASCII name is only measured; another is split at
\* the four full stops and encoded label by label.
idna(input) ==
    IF input = <<>> THEN Encoded(<<>>)
    ELSE IF isascii(input)
    THEN LET labels == Split(input, {"."})
         IN  IF /\ \A i \in 1..(Len(labels) - 1) :
                      0 < Len(labels[i]) /\ Len(labels[i]) < 64
                /\ Len(labels[Len(labels)]) < 64
             THEN Encoded(input)
             ELSE UnicodeError
    ELSE LET all == Split(input, {".", "U+3002", "U+FF0E", "U+FF61"})
             trailing == all[Len(all)] = <<>>
             labels == IF trailing THEN SubSeq(all, 1, Len(all) - 1) ELSE all
             done == [i \in 1..Len(labels) |-> ToASCII(labels[i])]
         IN  IF \E i \in 1..Len(done) : ~done[i].ok
             THEN UnicodeError
             ELSE Encoded(Join([i \in 1..Len(done) |-> done[i].text])
                          \o (IF trailing THEN <<".">> ELSE <<>>))

\* ---------------------------------------------------- form validators
\* wtforms DataRequired: the data is truthy and, for text, not blank.
DataRequired(data) ==
    /\ data # None
    /\ data # <<>>
    /\ strip(data) # <<>>

\* ipaddress.ip_address accepts the host as an IPv4 address: four decimal
\* octets of one to three digits, none above 255, none with a leading zero.
check_ipv4(h) ==
    LET parts == Labels(h)
    IN  /\ Len(parts) = 4
        /\ \A i \in 1..4 :
              /\ Len(parts[i]) >= 1
              /\ Len(parts[i]) <= 3
              /\ AllIn(parts[i], Digits)
              /\ Len(parts[i]) > 1 => parts[i][1] # "0"
              /\ int(parts[i]) <= 255

\* HostnameValidation.hostname_part: ^(xn-|[a-z0-9_]+)(-[a-z0-9_-]+)*$
hostname_part(part) ==
    LET p == BeforeDollar(part)
        w == PrefixIn(p, WordChars)
    IN  \/ /\ Len(p) = 3
           /\ p[1] \in {"x", "X"}
           /\ p[2] \in {"n", "N"}
           /\ p[3] = "-"
        \/ /\ w >= 1
           /\ AllIn(p, WordChars \cup {"-"})
           /\ Len(p) # w + 1

\* HostnameValidation.tld_part: ^([a-z]{2,20}|xn--([a-z0-9]+-)*[a-z0-9]+)$
tld_part(part) ==
    LET p == BeforeDollar(part)
        r == SubSeq(p, 5, Len(p))
    IN  \/ /\ Len(p) >= 2
           /\ Len(p) <= 20
           /\ AllIn(p, Letters)
        \/ /\ Len(p) >= 5
           /\ p[1] \in {"x", "X"}
           /\ p[2] \in {"n", "N"}
           /\ p[3] = "-"
           /\ p[4] = "-"
           /\ AllIn(r, Letters \cup Digits \cup {"-"})
           /\ r[1] # "-"
           /\ r[Len(r)] # "-"
           /\ \A i \in 1..(Len(r) - 1) : ~(r[i] = "-" /\ r[i + 1] = "-")

\* HostnameValidation(require_tld=True, allow_ip=True): an IPv4 address, or
\* a name whose idna encoding (the name itself when that raises) is made of
\* valid labels and ends in a top-level domain.  A host taken from a URL
\* holds no colon, so it is never an IPv6 address.
ValidHost(h) ==
    \/ check_ipv4(h)
    \/ LET hostname == IF idna(h).ok THEN idna(h).text ELSE h
           parts == Labels(hostname)
       IN  /\ Len(hostname) <= 253
           /\ \A i \in 1..Len(parts) :
                 /\ Len(parts[i]) >= 1
                 /\ Len(parts[i]) <= 63
                 /\ hostname_part(parts[i])
           /\ Len(parts) >= 2
           /\ tld_part(parts[Len(parts)])

\* wtforms URL():
\* ^[a-z]+://(?P<host>[^\/\?:]+)(?P<port>:[0-9]+)?(?P<path>\/.*?)?(?P<query>\?.*)?$
\* then the host check.
URL(data) ==
    LET n == PrefixIn(data, Letters)
        rest == SubSeq(data, n + 4, Len(data))
        hlen == PrefixNotIn(rest, {"/", "?", ":"})
        tail == SubSeq(rest, hlen + 1, Len(rest))
        plen == PrefixIn(SubSeq(tail, 2, Len(tail)), Digits)
        after == BeforeDollar(IF startswith(tail, <<":">>)
                              THEN SubSeq(tail, plen + 2, Len(tail))
                              ELSE tail)
    IN  /\ n >= 1
        /\ Len(data) >= n + 3
        /\ SubSeq(data, n + 1, n + 3) = Text("://")
        /\ hlen >= 1
        /\ startswith(tail, <<":">>) => plen >= 1
        /\ after = <<>> \/ after[1] \in {"/", "?"}
        /\ \A i \in 1..Len(after) : after[i] # "\n"
        /\ ValidHost(SubSeq(rest, 1, hlen))

\* SelectField(choices=["YES","NO"], validators=[DataRequired()]).
Select(data) == data \in Choices /\ DataRequired(data)

\* ------------------------------------------------- the anti-forgery check
\* CSRFProtect(app) of line 17 with the extension's defaults, which the
\* configuration object is taken to leave alone: before the view runs, a
\* request by one of WTF_CSRF_METHODS has to carry the token of its session,
\* and over HTTPS a Referer of the same origin, or it is answered 400.
WTF_CSRF_ENABLED_Off == FALSE

WTF_CSRF_ENABLED == TRUE
WTF_CSRF_SSL_STRICT == TRUE
WTF_CSRF_METHODS == {"POST", "PUT", "PATCH", "DELETE"}

\* A token stands for what it deserialises to: CsrfToken is signed, within
\* its time limit and the one the session holds; any other text is not.
CsrfToken == Text("t")

\* What a request carries beside its method and the named fields of its
\* form: the value of a form key that ends in csrf_token (the field of a
\* prefixed form), the headers X-CSRFToken and X-CSRF-Token, whether it
\* came over HTTPS, and its Referer (None when there is none).
NoExtra ==
    [prefixed |-> None, x_csrftoken |-> None, x_csrf_token |-> None,
     is_secure |-> FALSE, referrer |-> None]

\* Python's truth of a text or None.
Truthy(data) == data # None /\ data # <<>>

\* CSRFProtect._get_csrf_token: the field, else a form key ending in its
\* name, else the headers in order.
get_csrf_token(formdata, extra) ==
    IF Truthy(formdata.csrf_token) THEN formdata.csrf_token
    ELSE IF Truthy(extra.prefixed) THEN extra.prefixed
    ELSE IF Truthy(extra.x_csrftoken) THEN extra.x_csrftoken
    ELSE IF Truthy(extra.x_csrf_token) THEN extra.x_csrf_token
    ELSE None

validate_csrf(data) == Truthy(data) /\ data = CsrfToken

\* str.find for the first character of a set: its index, or one past the
\* end.  str.rfind likewise, or 0.
Find(s, set) ==
    IF \E i \in 1..Len(s) : s[i] \in set
    THEN CHOOSE i \in 1..Len(s) : s[i] \in set /\ \A j \in 1..(i - 1) : s[j] \notin set
    ELSE Len(s) + 1

RFind(s, set) ==
    IF \E i \in 1..Len(s) : s[i] \in set
    THEN CHOOSE i \in 1..Len(s) : s[i] \in set /\ \A j \in (i + 1)..Len(s) : s[j] \notin set
    ELSE 0

From(s, i) == IF i > Len(s) THEN <<>> ELSE SubSeq(s, i, Len(s))
Upto(s, i) == IF i < 1 THEN <<>> ELSE SubSeq(s, 1, i)

\* str.lower
lower_map(c) ==
    IF c \in Upper THEN <<Ascii[ord(c) + 33]>>
    ELSE IF c = "U+0130" THEN <<"i", "U+0307">>
    ELSE IF c = "U+212A" THEN <<"k">>
    ELSE <<c>>

RECURSIVE lower(_)
lower(s) == IF s = <<>> THEN <<>> ELSE lower_map(Head(s)) \o lower(Tail(s))

HexDigits == Digits \cup {"a", "b", "c", "d", "e", "f",
                          "A", "B", "C", "D", "E", "F"}

\* IPv6Address._parse_hextet
parse_hextet(h) == h # <<>> /\ Len(h) <= 4 /\ AllIn(h, HexDigits)

\* The first hi and the last lo groups are hextets, and stand for at most
\* seven of the eight.
hextets(parts, hi, lo) ==
    /\ hi + lo <= 7
    /\ \A i \in 1..Len(parts) :
          (i <= hi \/ i > Len(parts) - lo) => parse_hextet(parts[i])

\* The groups around the one run of empty groups, which is at `skip`: an
\* empty first or last group has to be next to it.
skipped(parts, skip) ==
    /\ parts[1] = <<>> => skip = 2
    /\ parts[Len(parts)] = <<>> => skip = Len(parts) - 1
    /\ hextets(parts,
               IF parts[1] = <<>> THEN skip - 2 ELSE skip - 1,
               IF parts[Len(parts)] = <<>> THEN Len(parts) - skip - 1
               ELSE Len(parts) - skip)

\* `skips` are the empty groups that are neither first nor last.
skipping(parts, skips) ==
    /\ Cardinality(skips) <= 1
    /\ IF skips = {}
       THEN Len(parts) = 8 /\ \A i \in 1..8 : parse_hextet(parts[i])
       ELSE skipped(parts, CHOOSE i \in skips : TRUE)

groups(parts) ==
    /\ Len(parts) <= 9
    /\ skipping(parts, {i \in 2..(Len(parts) - 1) : parts[i] = <<>>})

\* IPv6Address._ip_int_from_str on the text split at its colons: at least
\* three parts; a dotted last part is an IPv4 address and stands for two
\* groups.
ip_int_from_str(parts) ==
    /\ Len(parts) >= 3
    /\ IF \E k \in 1..Len(parts[Len(parts)]) : parts[Len(parts)][k] = "."
       THEN /\ check_ipv4(parts[Len(parts)])
            /\ groups(Upto(parts, Len(parts) - 1)
                         \o <<Text("0"), Text("0")>>)
       ELSE groups(parts)

\* IPv6Address.__init__ on a text whose first % is at `percent`: no slash;
\* a scope (_split_scope_id) is not empty and holds no other %.
split_scope_id(address, percent) ==
    /\ \A k \in 1..Len(address) : address[k] # "/"
    /\ percent <= Len(address) =>
          /\ percent < Len(address)
          /\ \A k \in (percent + 1)..Len(address) : address[k] # "%"
    /\ ip_int_from_str(Split(Upto(address, percent - 1), {":"}))

\* ipaddress.IPv6Address accepts the text.
IPv6Address(address) == split_scope_id(address, Find(address, {"%"}))

\* An IPvFuture address, \Av[a-fA-F0-9]+\..+\Z, whose first full stop is
\* at `dot`: the . of the pattern matches no newline.
IPvFuture(hostname, dot) ==
    /\ dot > 2
    /\ dot < Len(hostname)
    /\ AllIn(SubSeq(hostname, 2, dot - 1), HexDigits)
    /\ \A k \in (dot + 1)..Len(hostname) : hostname[k] # "\n"

\* urllib.parse._check_bracketed_host
check_bracketed_host(hostname) ==
    IF startswith(hostname, Text("v"))
    THEN IPvFuture(hostname, Find(hostname, {"."}))
    ELSE IPv6Address(hostname)

SchemeChars == Lower \cup Upper \cup Digits \cup {"+", "-", "."}

\* urllib.parse._WHATWG_C0_CONTROL_OR_SPACE
WHATWG_C0_CONTROL_OR_SPACE ==
    {"U+0000", "U+0001", "U+0002", "U+0003", "U+0004", "U+0005", "U+0006",
     "U+0007", "U+0008", "\t", "\n", "U+000B", "\f", "\r", "U+000E",
     "U+000F", "U+0010", "U+0011", "U+0012", "U+0013", "U+0014", "U+0015",
     "U+0016", "U+0017", "U+0018", "U+0019", "U+001A", "U+001B", "U+001C",
     "U+001D", "U+001E", "U+001F", " "}

\* urllib.parse._UNSAFE_URL_BYTES_TO_REMOVE
UNSAFE_URL_BYTES_TO_REMOVE == {"\t", "\r", "\n"}

\* What urlsplit parses: the text without its leading control characters
\* and spaces, and without any tab, carriage return or newline.
stripped(url) ==
    SelectSeq(From(url, PrefixIn(url, WHATWG_C0_CONTROL_OR_SPACE) + 1),
              LAMBDA c : c \notin UNSAFE_URL_BYTES_TO_REMOVE)

\* The scheme, in lower case, when the first colon, which is at i, comes
\* after an ASCII letter and scheme characters only; and the rest.
scheme_at(url, i) ==
    IF /\ i > 1
       /\ i <= Len(url)
       /\ url[1] \in Lower \cup Upper
       /\ AllIn(Upto(url, i - 1), SchemeChars)
    THEN [scheme |-> lower(Upto(url, i - 1)), url |-> From(url, i + 1)]
    ELSE [scheme |-> <<>>, url |-> url]

\* urllib.parse._splitnetloc on what follows the two slashes.
splitnetloc(after) == Upto(after, Find(after, {"/", "?", "#"}) - 1)

netloc(url) ==
    IF startswith(url, Text("//")) THEN splitnetloc(From(url, 3)) ELSE <<>>

\* The text up to the first ].
partition_close(inside) == Upto(inside, Find(inside, {"]"}) - 1)

\* urlsplit raises ValueError when the brackets of the network location do
\* not pair, or hold no address.
invalid_brackets(loc, opens, closes) ==
    \/ opens # closes
    \/ /\ opens
       /\ ~check_bracketed_host(
              partition_close(From(loc, Find(loc, {"["}) + 1)))

\* The characters whose NFKC form holds one of / ? # @ :
NFKC_Delimiters ==
    {"U+2047", "U+2048", "U+2049", "U+2100", "U+2101", "U+2105", "U+2106",
     "U+2A74", "U+FE13", "U+FE16", "U+FE55", "U+FE56", "U+FE5F", "U+FE6B",
     "U+FF03", "U+FF0F", "U+FF1A", "U+FF1F", "U+FF20"}

\* urllib.parse._checknetloc raises ValueError: the network location would
\* hold a delimiter once normalised.
checknetloc(loc) == \E k \in 1..Len(loc) : loc[k] \in NFKC_Delimiters

invalid_netloc(loc) ==
    \/ invalid_brackets(loc, \E k \in 1..Len(loc) : loc[k] = "[",
                             \E k \in 1..Len(loc) : loc[k] = "]")
    \/ checknetloc(loc)

\* _hostinfo: the host and the text of the port, of a host in brackets that
\* close at `close`, or of one without and its first colon at `colon`.
bracketed_hostinfo(bracketed, close) ==
    [host |-> Upto(bracketed, close - 1),
     port |-> From(bracketed,
                   close + Find(From(bracketed, close + 1), {":"}) + 1)]

plain_hostinfo(info, colon) ==
    [host |-> Upto(info, colon - 1), port |-> From(info, colon + 1)]

after_open(bracketed) ==
    bracketed_hostinfo(bracketed, Find(bracketed, {"]"}))

after_userinfo(info) ==
    IF \E k \in 1..Len(info) : info[k] = "["
    THEN after_open(From(info, Find(info, {"["}) + 1))
    ELSE plain_hostinfo(info, Find(info, {":"}))

hostinfo(loc) == after_userinfo(From(loc, RFind(loc, {"@"}) + 1))

\* The hostname property: lower case up to a zone, which begins at
\* `percent`; None for no host.
zoned(host, percent) == lower(Upto(host, percent - 1)) \o From(host, percent)

hostname(host) == IF host = <<>> THEN None ELSE zoned(host, Find(host, {"%"}))

\* urllib.parse.urlparse, as far as same_origin reads it: the scheme, the
\* host name and the text of the port (None when there is none), and
\* whether urlsplit raises for the brackets in the network location.
SplitResult(scheme, invalid, info) ==
    [scheme |-> scheme,
     invalid |-> invalid,
     hostname |-> hostname(info.host),
     port |-> IF info.port = <<>> THEN None ELSE info.port]

located(scheme, loc) ==
    SplitResult(scheme, invalid_netloc(loc), hostinfo(loc))

with_netloc(split) == located(split.scheme, netloc(split.url))

with_scheme(url) == with_netloc(scheme_at(url, Find(url, {":"})))

urlsplit(url) == with_scheme(stripped(url))

urlparse(uri) == urlsplit(uri)

RECURSIVE lstripZeros(_)
lstripZeros(s) ==
    IF s # <<>> /\ Head(s) = "0" THEN lstripZeros(Tail(s)) ELSE s

\* int() of the port text is within 0..65535.
InRange(digits) == Len(digits) <= 5 /\ int(digits) <= 65535

\* The port property raises ValueError.
PortError(port) ==
    /\ port # None
    /\ ~(AllIn(port, Digits) /\ InRange(lstripZeros(port)))

\* The site is reached as https://host/.
Host == Text("host")

\* The comparison of same_origin: scheme, host name and port in this
\* order; "raises" when reading one of them raises ValueError.
compare(current) ==
    IF current.invalid THEN "raises"
    ELSE IF current.scheme # Text("https") THEN "no"
    ELSE IF current.hostname # Host THEN "no"
    ELSE IF PortError(current.port) THEN "raises"
    ELSE IF current.port # None THEN "no"
    ELSE "yes"

\* same_origin(request.referrer, "https://<host>/")
same_origin(referrer) == compare(urlparse(referrer))

\* What protect makes of the comparison.
referrer_answer(same) ==
    IF same = "raises" THEN "500:ValueError"
    ELSE IF same = "no" THEN "400"
    ELSE "ok"

\* CSRFProtect.protect: "ok", or "400" for the CSRFError it raises, or
\* "500:ValueError" for a ValueError out of same_origin.
protect(formdata, extra) ==
    IF ~validate_csrf(get_csrf_token(formdata, extra)) THEN "400"
    ELSE IF extra.is_secure /\ WTF_CSRF_SSL_STRICT
         THEN IF ~Truthy(extra.referrer) THEN "400"
              ELSE referrer_answer(same_origin(extra.referrer))
         ELSE "ok"

\* The before_request hook: "ok" when the request goes on to the view.
csrf_protect(method, formdata, extra) ==
    IF WTF_CSRF_ENABLED /\ method \in WTF_CSRF_METHODS
    THEN protect(formdata, extra)
    ELSE "ok"

\* UpdateCafeForm.validate_coffee_price: the price must start with the glyph.
validate_coffee_price_Off(data) == TRUE

validate_coffee_price(data) == startswith(data, Glyph)

AddCafeForm_validate(form) ==
    /\ DataRequired(form.name)
    /\ DataRequired(form.map_url) /\ URL(form.map_url)
    /\ DataRequired(form.img_url) /\ URL(form.img_url)
    /\ DataRequired(form.location)
    /\ DataRequired(form.seats)
    /\ Select(form.has_toilet)
    /\ Select(form.has_wifi)
    /\ Select(form.has_sockets)
    /\ Select(form.can_take_calls)
    /\ DataRequired(form.coffee_price)

\* The add form's rules, the token, and the price rule.  With the check of
\* line 17 in force the form's own token field stands in place of the one
\* declared at line 77 and accepts what protect() accepted, which every
\* submission that reaches the view has passed; without it line 77 asks
\* for a token that is not blank.
UpdateCafeForm_validate(form) ==
    /\ WTF_CSRF_ENABLED \/ DataRequired(form.csrf_token)
    /\ AddCafeForm_validate(form)
    /\ validate_coffee_price(form.coffee_price)

ReportClosed_validate(form) ==
    /\ DataRequired(form.sender)
    /\ DataRequired(form.message)

is_submitted(method) == method \in SUBMIT_METHODS

\* ------------------------------------------------------------ the table
\* A row is a record over Columns; the table is the sequence of its rows
\* in identifier order, the order an unordered SELECT returns them in.
FormFields ==
    {"name", "map_url", "img_url", "location", "seats", "has_toilet",
     "has_wifi", "has_sockets", "can_take_calls", "coffee_price"}
Columns == {"id"} \cup FormFields
Amenities == {"has_toilet", "has_wifi", "has_sockets", "can_take_calls"}
TextFields == FormFields \ Amenities
NotNullable == Columns \ {"coffee_price"}

\* Cafe.to_dict: every column of the row.
to_dict(cafe) == [c \in Columns |-> cafe[c]]

\* Cafe.__repr__: the columns the printable summary is made of.
repr(cafe) == <<cafe.id, cafe.name, cafe.location, cafe.map_url>>

UniqueNames(t) ==
    \A i, j \in 1..Len(t) : t[i].name = t[j].name => i = j

UniqueIds(t) ==
    \A i, j \in 1..Len(t) : t[i].id = t[j].id => i = j

NotNull(t) ==
    \A i \in 1..Len(t) : \A c \in NotNullable \cap TextFields : t[i][c] # None

\* What the table's constraints accept at commit.
IntegrityOK_NoUnique(t) == UniqueIds(t) /\ NotNull(t)

IntegrityOK(t) == UniqueNames(t) /\ UniqueIds(t) /\ NotNull(t)

\* The identifier an insert is given: one above the highest in the table.
RECURSIVE MaxOf(_)
MaxOf(t) ==
    IF t = <<>> THEN 0
    ELSE LET m == MaxOf(Tail(t))
         IN  IF t[1].id > m THEN t[1].id ELSE m

NextId(t) == MaxOf(t) + 1

\* Cafe.query.get: the rows with this identifier (one or none).
Lookup(t, cafe_id) == SelectSeq(t, LAMBDA r : r.id = cafe_id)

\* filter(Cafe.location == loc): `= NULL` at None, which no row satisfies.
FilterLocation(t, loc) ==
    IF loc = None
    THEN SelectSeq(t, LAMBDA r : FALSE)
    ELSE SelectSeq(t, LAMBDA r : r.location = loc)

\* Query.first(): the first row of the result, or none.
first_Last(rows) == IF rows = <<>> THEN <<>> ELSE <<rows[Len(rows)]>>

first(rows) == IF rows = <<>> THEN <<>> ELSE <<rows[1]>>

\* DELETE of the row with this identifier.
DeleteRow(t, cafe_id) == SelectSeq(t, LAMBDA r : r.id # cafe_id)

\* UPDATE ... WHERE id = cafe.id, setting the columns whose value differs
\* from the value the object was loaded with.
ReplaceRow_All(t, loaded, cafe) ==
    [i \in 1..Len(t) |->
        [c \in Columns |->
            IF c # "id" /\ cafe[c] # loaded[c] THEN cafe[c] ELSE t[i][c]]]

ReplaceRow(t, loaded, cafe) ==
    [i \in 1..Len(t) |->
        IF t[i].id = loaded.id
        THEN [c \in Columns |->
                 IF c # "id" /\ cafe[c] # loaded[c] THEN cafe[c] ELSE t[i][c]]
        ELSE t[i]]

\* The columns the UPDATE sets.
Changed(loaded, cafe) == {c \in FormFields : cafe[c] # loaded[c]}

\* True if ... == 'YES' else False
YesNo(data) == data = Text("YES")

\* str() of a Boolean column, as SelectField coerces the data of an object.
str(value) == IF value THEN Text("True") ELSE Text("False")

\* f"{value}" of a form value: the text, or the word None.
format(value) == IF value = None THEN Text("None") ELSE value

\* ---------------------------------------------------------------- forms
\* request.form is a record over the field names; None at a field the
\* request does not carry.
UpdateFields == FormFields \cup {"csrf_token"}
NoForm == [f \in UpdateFields |-> None]

\* AddCafeForm(): bound to request.form on a submitting method only.
AddCafeForm(method, formdata) ==
    [f \in FormFields |-> IF is_submitted(method) THEN formdata[f] ELSE None]

\* The data UpdateCafeForm(obj=cafe) takes from the object: a select field
\* holds str() of the column, the token field nothing.
ObjData(cafe, f) ==
    IF f = "csrf_token" THEN None
    ELSE IF f \in Amenities THEN str(cafe[f])
    ELSE cafe[f]

\* UpdateCafeForm(obj=cafe): a submitted field wins, any other field holds
\* the object's data.
UpdateCafeForm(method, formdata, cafe) ==
    [f \in UpdateFields |->
        IF is_submitted(method) /\ formdata[f] # None
        THEN formdata[f]
        ELSE ObjData(cafe, f)]

\* ReportClosed(): bound to request.form on a submitting method only.
ReportClosed(method, formdata) ==
    [f \in {"sender", "message"} |->
        IF is_submitted(method) THEN formdata[f] ELSE None]

\* --------------------------------------------------------------- inputs
GlyphPrice == Glyph \o Text("3.50")

BaseSub ==
    [csrf_token |-> CsrfToken,
     name |-> Text("A"),
     map_url |-> Text("http://m.co"),
     img_url |-> Text("http") \o <<"U+017F">> \o Text("://127.0.0.1:5000/x"),
     location |-> Text("X"),
     seats |-> Text("20+"),
     has_toilet |-> Text("YES"),
     has_wifi |-> Text("NO"),
     has_sockets |-> Text("YES"),
     can_take_calls |-> Text("NO"),
     coffee_price |-> Text("3.50")]

\* Submissions both forms or one of them accept.
SubB ==
    [BaseSub EXCEPT !.name = Text("B"),
                    !.map_url = Text("http://m") \o <<"U+00E9">> \o Text(".co"),
                    !.location = Text("None"),
                    !.coffee_price = GlyphPrice]
GoodSubs == {BaseSub, SubB, [SubB EXCEPT !.name = None]}

\* One field of an accepted submission spoiled.
BadValues ==
    {<<"name", Text("\t ")>>,
     <<"map_url", Text("m.co")>>,
     <<"map_url", Text("http://a-.co")>>,
     <<"img_url", Text("https://i.co/a\nb")>>,
     <<"location", <<"U+00A0">>>>,
     <<"seats", <<>>>>,
     <<"has_toilet", Text("MAYBE")>>,
     <<"has_wifi", None>>,
     <<"coffee_price", Text(" ")>>,
     <<"csrf_token", None>>}

BadSubs == {[SubB EXCEPT ![b[1]] = b[2]] : b \in BadValues}

CafeSubs == GoodSubs \cup BadSubs

\* The token in the header X-CSRFToken; a request over HTTPS.
InHeader == [NoExtra EXCEPT !.x_csrftoken = CsrfToken]
Https(referrer) == [NoExtra EXCEPT !.is_secure = TRUE, !.referrer = referrer]

\* A request to a form page: its method, request.form, and the rest.  A GET
\* carries no form; a POST carries one, its token in the form or in a
\* header, over HTTP or over HTTPS with or without a Referer of the site.
FormRequests ==
    {<<"GET", NoForm, NoExtra>>}
    \cup {<<"POST", f, NoExtra>> : f \in CafeSubs}
    \cup {<<"POST", BaseSub, Https(Text("https://host/cafes"))>>,
          <<"POST", [SubB EXCEPT !.csrf_token = None], InHeader>>,
          <<"POST", SubB, Https(None)>>,
          <<"POST", SubB, Https(Text("https://host:x/"))>>}
CafeIds == 1..MaxId
QueryLocations == {None, Text("X"), Text("None"), Text("Z")}

\* request.form of the report page: nothing, or what its two forms post.
NoReport ==
    [csrf_token |-> None, api_key |-> None, sender |-> None, message |-> None]
Posted == [NoReport EXCEPT !.csrf_token = CsrfToken]
GoodReport ==
    [Posted EXCEPT !.sender = Text("a@b.c"), !.message = Text("closed")]
ReportRequests ==
    {<<"GET", NoReport, NoExtra>>,
     <<"GET", [NoReport EXCEPT !.api_key = API_KEY], NoExtra>>,
     <<"POST", NoReport, [NoExtra EXCEPT !.prefixed = CsrfToken]>>,
     <<"POST", [Posted EXCEPT !.api_key = API_KEY], NoExtra>>,
     <<"POST", [NoReport EXCEPT !.api_key = API_KEY], NoExtra>>,
     <<"POST", [Posted EXCEPT !.api_key = API_KEY],
       Https(Text("https://other/"))>>,
     <<"DELETE", [GoodReport EXCEPT !.api_key = API_KEY], NoExtra>>,
     <<"POST", [GoodReport EXCEPT !.api_key = Text("topsecretapikey")],
       NoExtra>>,
     <<"POST", [GoodReport EXCEPT !.csrf_token = Text("u")], NoExtra>>,
     <<"POST", [GoodReport EXCEPT !.csrf_token = None,
                                  !.sender = Text("\n")],
       [NoExtra EXCEPT !.x_csrf_token = CsrfToken]>>,
     <<"DELETE", [GoodReport EXCEPT !.message = None],
       Https(Text(" https://host"))>>,
     <<"POST", GoodReport, Https(Text("https://host:x/"))>>}
SmtpOutcomes ==
    {"sent", "connect", "ehlo", "starttls", "login", "sendmail", "quit"}

\* ------------------------------------------------------ the state machine
NoReq ==
    [op |-> "none", cafe_id |-> 0, method |-> "", form |-> NoForm,
     extra |-> NoExtra, loc |-> None, cafe |-> <<>>, outcome |-> "",
     wrote |-> FALSE]
NoPayload == [kind |-> "none"]
NoShown == [kind |-> "none"]

\* A flashed notice: its category, what it says, the cafe name it carries.
Flash(category, text, name) ==
    [category |-> category, text |-> text, name |-> name]

\* db.create_all() on an empty database; no request in progress.
Init ==
    /\ table = <<>>
    /\ pending = <<>>
    /\ old = <<>>
    /\ req = NoReq
    /\ resp = ""
    /\ payload = NoPayload
    /\ shown = NoShown
    /\ flashes = <<>>
    /\ outbox = <<>>
    /\ trace = {}

\* No answer is on display: the next request can be taken.
Idle == req = NoReq

\* A request r found the table as it is, left it as t and the suspended
\* request as p, and answered.
Answer(r, t, p, rs, pl, sh, fl, ob, tr) ==
    /\ table' = t
    /\ pending' = p
    /\ old' = table
    /\ req' = r
    /\ resp' = rs
    /\ payload' = pl
    /\ shown' = sh
    /\ flashes' = fl
    /\ outbox' = ob
    /\ trace' = tr

\* The check of line 17 answers in place of the view: 400 for its
\* CSRFError, 500 when it raised another exception.
Refuse(r, answer, route) ==
    Answer(r, table, pending, answer, NoPayload, NoShown, <<>>, <<>>,
           IF answer = "400" THEN {route, "csrf"}
           ELSE {route, "csrf", "raised"})

\* The request context ends: its answer and notices are gone.
teardown_request ==
    /\ ~Idle
    /\ table' = table
    /\ pending' = pending
    /\ old' = <<>>
    /\ req' = NoReq
    /\ resp' = ""
    /\ payload' = NoPayload
    /\ shown' = NoShown
    /\ flashes' = <<>>
    /\ outbox' = <<>>
    /\ trace' = {}

home ==
    /\ Idle
    /\ Answer([NoReq EXCEPT !.op = "home"], table, pending,
              "200:index.html", NoPayload, NoShown, <<>>, <<>>, {"home"})

\* random.choice over all rows; on no rows it raises IndexError.
get_random_cafe ==
    /\ Idle
    /\ IF table = <<>>
       THEN Answer([NoReq EXCEPT !.op = "get_random_cafe"], table, pending,
                   "500:IndexError", NoPayload, NoShown, <<>>, <<>>,
                   {"random", "raised"})
       ELSE \E i \in 1..Len(table) :
               Answer([NoReq EXCEPT !.op = "get_random_cafe"], table, pending,
                      "200:json",
                      [kind |-> "cafe", cafe |-> to_dict(table[i])],
                      NoShown, <<>>, <<>>, {"random"})

get_all_cafes ==
    /\ Idle
    /\ Answer([NoReq EXCEPT !.op = "get_all_cafes"], table, pending,
              "200:cafes.html",
              [kind |-> "all_cafes",
               all_cafes |-> [i \in 1..Len(table) |-> to_dict(table[i])]],
              NoShown, <<>>, <<>>, {"all"})

get_cafe_at_location ==
    /\ Idle
    /\ \E loc \in QueryLocations :
          LET cafe == first(FilterLocation(table, loc))
              r == [NoReq EXCEPT !.op = "get_cafe_at_location", !.loc = loc]
          IN  IF cafe # <<>>
              THEN Answer(r, table, pending, "200:json",
                          [kind |-> "cafe", cafe |-> to_dict(cafe[1])],
                          NoShown, <<>>, <<>>, {"search", "found"})
              ELSE Answer(r, table, pending, "200:json",
                          [kind |-> "error"],
                          NoShown, <<>>, <<>>, {"search", "not found"})

\* Cafe(...) of lines 167-178, from request.form.
NewCafe(id, formdata) ==
    [id |-> id,
     name |-> formdata.name,
     map_url |-> formdata.map_url,
     img_url |-> formdata.img_url,
     location |-> formdata.location,
     seats |-> formdata.seats,
     has_toilet |-> YesNo(formdata.has_toilet),
     has_wifi |-> YesNo(formdata.has_wifi),
     has_sockets |-> YesNo(formdata.has_sockets),
     can_take_calls |-> YesNo(formdata.can_take_calls),
     coffee_price |-> Glyph \o format(formdata.coffee_price)]

add_cafe ==
    /\ Idle
    /\ \E fr \in FormRequests :
          LET method == fr[1]
              formdata == fr[2]
              form == AddCafeForm(method, formdata)
              extra == fr[3]
              r == [NoReq EXCEPT !.op = "add_cafe", !.method = method,
                                 !.form = formdata, !.extra = extra]
              t == Append(table, NewCafe(NextId(table), formdata))
          IN  IF csrf_protect(method, formdata, extra) # "ok"
              THEN Refuse(r, csrf_protect(method, formdata, extra), "add")
              ELSE IF is_submitted(method) /\ AddCafeForm_validate(form)
              THEN IF IntegrityOK(t)
                   THEN /\ NextId(table) <= MaxId
                        /\ Answer([r EXCEPT !.wrote = TRUE], t, pending,
                                  "302:get_all_cafes",
                                  NoPayload, NoShown, <<>>, <<>>,
                                  {"add", "valid", "commit"})
                   ELSE Answer(r, table, pending, "500:IntegrityError",
                               NoPayload, NoShown, <<>>, <<>>,
                               {"add", "valid", "raised"})
              ELSE Answer(r, table, pending, "200:add.html",
                          NoPayload, [kind |-> "form", data |-> form],
                          <<>>, <<>>, {"add", "invalid"})

\* The object after the assignments of lines 203-212.
ChangedCafe(cafe, form) ==
    [id |-> cafe.id,
     name |-> form.name,
     map_url |-> form.map_url,
     img_url |-> form.img_url,
     location |-> form.location,
     seats |-> form.seats,
     has_toilet |-> YesNo(form.has_toilet),
     has_wifi |-> YesNo(form.has_wifi),
     has_sockets |-> YesNo(form.has_sockets),
     can_take_calls |-> YesNo(form.can_take_calls),
     coffee_price |-> form.coffee_price]

\* The update whose commit of line 215 went through and which has still to
\* reload cafe.name at line 216.  The commit has expired the object, so
\* nothing of what was loaded is read again; of the request the form of
\* line 200 is still to be rendered, and is kept in place of request.form.
Committed(r, form) ==
    [NoReq EXCEPT !.op = "update_cafe", !.cafe_id = r.cafe_id,
                  !.method = r.method, !.form = form,
                  !.outcome = "commit", !.wrote = r.wrote]

\* Lines 200-228 for the request r0, which loaded r0.cafe and carries the
\* submission fr, on the table as it is by now.  A commit that fails leaves
\* the session waiting for rollback(); the handler of line 219 reads
\* cafe.name before it calls rollback(), which raises in its turn.  A commit
\* with nothing to write succeeds, also when the row is gone.  After the
\* commit, cafe.name is loaded again at line 216 and, when that raises, at
\* line 220: either at once (wait = FALSE), on the table the commit left, or
\* after other requests have been served (wait = TRUE).  p is the suspended
\* request left behind when the request answers.
WriteBack(r0, fr, p, wait) ==
    LET method == fr[1]
        formdata == fr[2]
        loaded == r0.cafe[1]
        form == UpdateCafeForm(method, formdata, loaded)
        r == [r0 EXCEPT !.method = method, !.form = formdata,
                        !.extra = fr[3]]
        cafe == ChangedCafe(loaded, form)
        t == ReplaceRow(table, loaded, cafe)
        now == Lookup(t, loaded.id)
        w == [r EXCEPT !.wrote = Changed(loaded, cafe) # {}]
    IN  IF is_submitted(method) /\ UpdateCafeForm_validate(form)
        THEN IF now = <<>> /\ Changed(loaded, cafe) # {}
             THEN Answer(r, table, p, "500:PendingRollbackError",
                         NoPayload, NoShown, <<>>, <<>>,
                         {"update", "valid", "StaleDataError", "raised"})
             ELSE IF ~IntegrityOK(t)
             THEN Answer(r, table, p, "500:PendingRollbackError",
                         NoPayload, NoShown, <<>>, <<>>,
                         {"update", "valid", "IntegrityError", "raised"})
             ELSE IF wait
             THEN Answer(w, t, <<Committed(w, form)>>, "",
                         NoPayload, NoShown, <<>>, <<>>,
                         {"update", "valid", "commit"})
             ELSE IF now = <<>>
             THEN Answer(w, t, p, "500:ObjectDeletedError",
                         NoPayload, NoShown, <<>>, <<>>,
                         {"update", "valid", "commit", "raised"})
             ELSE Answer(w, t, p, "302:get_all_cafes",
                         NoPayload, NoShown,
                         <<Flash("success", "updated", now[1].name)>>,
                         <<>>, {"update", "valid", "commit", "reload"})
        ELSE Answer(r, table, p, "200:edit.html",
                    NoPayload, [kind |-> "form", data |-> form],
                    <<>>, <<>>, {"update", "invalid"})

\* Lines 185-228 with no other request between its steps: the check of
\* line 17, the read of lines 197-198, and the rest.
update_cafe ==
    /\ Idle
    /\ \E cafe_id \in CafeIds, fr \in FormRequests :
          LET method == fr[1]
              formdata == fr[2]
              extra == fr[3]
              found == Lookup(table, cafe_id)
              r == [NoReq EXCEPT !.op = "update_cafe", !.cafe_id = cafe_id,
                                 !.method = method, !.form = formdata,
                                 !.extra = extra]
          IN  IF csrf_protect(method, formdata, extra) # "ok"
              THEN Refuse(r, csrf_protect(method, formdata, extra), "update")
              ELSE IF found = <<>>
                   THEN Answer(r, table, pending, "404", NoPayload, NoShown,
                               <<>>, <<>>, {"update", "404"})
                   ELSE WriteBack([r EXCEPT !.cafe = found], fr, pending,
                                  FALSE)

\* Lines 197-198 of a request that passed the check of line 17: the row is
\* read in a session of its own, which is closed before the form is built;
\* the object goes on detached, holding the values it was loaded with, and
\* other requests are served before line 200.  Only a request that submits
\* is followed over this gap; one that does not writes nothing after it.
update_cafe_read ==
    /\ Idle
    /\ pending = <<>>
    /\ \E cafe_id \in CafeIds, method \in SUBMIT_METHODS \cap {"POST"} :
          LET found == Lookup(table, cafe_id)
          IN  /\ found # <<>>
              /\ pending' = <<[NoReq EXCEPT !.op = "update_cafe",
                                            !.cafe_id = cafe_id,
                                            !.method = method,
                                            !.cafe = found]>>
              /\ UNCHANGED <<table, old, req, resp, payload, shown,
                             flashes, outbox, trace>>

\* The suspended update goes on from line 200 with the submission it
\* arrived with, and answers or waits before line 216.
update_cafe_write ==
    /\ Idle
    /\ pending # <<>>
    /\ pending[1].op = "update_cafe"
    /\ pending[1].outcome = ""
    /\ \E fr \in FormRequests, wait \in BOOLEAN :
          /\ fr[1] = pending[1].method
          /\ csrf_protect(fr[1], fr[2], fr[3]) = "ok"
          /\ WriteBack(pending[1], fr, <<>>, wait)

\* Lines 216-218 of the update that waited after its commit: cafe.name is
\* loaded again, the notice carries it and the request redirects.  When the
\* row is gone by now the load raises and the request goes on at line 219.
update_cafe_answer ==
    /\ Idle
    /\ pending # <<>>
    /\ pending[1].op = "update_cafe"
    /\ pending[1].outcome = "commit"
    /\ LET now == Lookup(table, pending[1].cafe_id)
       IN  IF now = <<>>
           THEN /\ pending' = <<[pending[1] EXCEPT !.outcome = "reload"]>>
                /\ UNCHANGED <<table, old, req, resp, payload, shown,
                               flashes, outbox, trace>>
           ELSE Answer(pending[1], table, <<>>, "302:get_all_cafes",
                       NoPayload, NoShown,
                       <<Flash("success", "updated", now[1].name)>>,
                       <<>>, {"update", "reload"})

\* Lines 219-228 after the load of line 216 raised: line 220 loads cafe.name
\* once more.  With the row still gone this raises out of the handler; with
\* a row under the identifier again (the table hands the highest identifier
\* out anew) the notice is flashed, rollback() finds nothing to undo and
\* the form of line 200 is rendered, the update being committed.
update_cafe_except ==
    /\ Idle
    /\ pending # <<>>
    /\ pending[1].op = "update_cafe"
    /\ pending[1].outcome = "reload"
    /\ LET now == Lookup(table, pending[1].cafe_id)
           form == pending[1].form
       IN  IF now = <<>>
           THEN Answer(pending[1], table, <<>>, "500:ObjectDeletedError",
                       NoPayload, NoShown, <<>>, <<>>,
                       {"update", "reload", "raised"})
           ELSE Answer(pending[1], table, <<>>, "200:edit.html",
                       NoPayload, [kind |-> "form", data |-> form],
                       <<Flash("danger", "Failed to update", now[1].name)>>,
                       <<>>, {"update", "reload", "raised", "rollback"})

\* smtplib session of lines 272-280.  `outcome` is "sent", or the step that
\* raised; QUIT is sent on leaving the with block, after the relay has
\* accepted the message.  Every exception ends in a danger notice.
send_email_Silent(sender, message, outcome) ==
    [outbox |-> IF outcome \in {"sent", "quit"}
                THEN <<[sender |-> sender, message |-> message]>>
                ELSE <<>>,
     flashes |-> IF outcome = "sent"
                 THEN <<Flash("success", "Email sent successfully", <<>>)>>
                 ELSE <<>>]

send_email(sender, message, outcome) ==
    [outbox |-> IF outcome \in {"sent", "quit"}
                THEN <<[sender |-> sender, message |-> message]>>
                ELSE <<>>,
     flashes |-> IF outcome = "sent"
                 THEN <<Flash("success", "Email sent successfully", <<>>)>>
                 ELSE <<Flash("danger", "Failed to send email", <<>>)>>]

\* api_key == app.config['API_KEY']
KeyMatches(api_key) == api_key = API_KEY

\* The check of line 17, then lines 240-254 and 262.  The key branch runs
\* whole, or stops after its read of line 246 while other requests are
\* served; the report branch runs up to its read of the row,
\* after which the request waits for the mail relay.
delete_cafe ==
    /\ Idle
    /\ \E cafe_id \in CafeIds, rr \in ReportRequests :
          LET method == rr[1]
              formdata == rr[2]
              extra == rr[3]
              report_form == ReportClosed(method, formdata)
              found == Lookup(table, cafe_id)
              r == [NoReq EXCEPT !.op = "delete_cafe", !.cafe_id = cafe_id,
                                 !.method = method, !.form = formdata,
                                 !.extra = extra]
          IN  IF csrf_protect(method, formdata, extra) # "ok"
              THEN Refuse(r, csrf_protect(method, formdata, extra), "delete")
              ELSE IF KeyMatches(formdata.api_key)
              THEN IF found = <<>>
                   THEN Answer(r, table, pending, "404", NoPayload, NoShown,
                               <<>>, <<>>, {"delete", "key", "404"})
                   ELSE \/ Answer([r EXCEPT !.cafe = found, !.wrote = TRUE],
                                  DeleteRow(table, cafe_id), pending,
                                  "302:get_all_cafes", NoPayload, NoShown,
                                  <<Flash("success", "deleted",
                                          found[1].name)>>,
                                  <<>>, {"delete", "key", "commit"})
                        \/ /\ pending = <<>>
                           /\ pending' = <<[r EXCEPT !.cafe = found,
                                                     !.outcome = "key"]>>
                           /\ UNCHANGED <<table, old, req, resp, payload,
                                          shown, flashes, outbox, trace>>
              ELSE IF is_submitted(method) /\ ReportClosed_validate(report_form)
                   THEN IF found = <<>>
                        THEN Answer(r, table, pending, "404", NoPayload,
                                    NoShown, <<>>, <<>>,
                                    {"delete", "report", "valid", "404"})
                        ELSE /\ pending = <<>>
                             /\ pending' = <<[r EXCEPT !.cafe = found]>>
                             /\ UNCHANGED <<table, old, req, resp, payload,
                                            shown, flashes, outbox, trace>>
                   ELSE Answer(r, table, pending, "200:report.html",
                               NoPayload,
                               [kind |-> "form", data |-> report_form],
                               <<>>, <<>>, {"delete", "report", "invalid"})

\* Lines 247-250 of the keyed request that stopped after its read: the
\* DELETE names the row by its identifier and removes whichever row holds
\* it by now; one that matches no row is a warning only.  The notice
\* carries the name as it was read.
delete_cafe_commit ==
    /\ Idle
    /\ pending # <<>>
    /\ pending[1].op = "delete_cafe"
    /\ pending[1].outcome = "key"
    /\ LET cafe == pending[1].cafe[1]
           now == Lookup(table, pending[1].cafe_id)
       IN  Answer([pending[1] EXCEPT !.wrote = now # <<>>],
                  DeleteRow(table, pending[1].cafe_id), <<>>,
                  "302:get_all_cafes", NoPayload, NoShown,
                  <<Flash("success", "deleted", cafe.name)>>,
                  <<>>, {"delete", "key", "commit"})

\* Lines 255-260: the mail is composed from the row as it was read, handed
\* to send_email, and the request redirects.
delete_cafe_send ==
    /\ Idle
    /\ pending # <<>>
    /\ pending[1].op = "delete_cafe"
    /\ pending[1].outcome = ""
    /\ \E outcome \in SmtpOutcomes :
          LET cafe == pending[1].cafe[1]
              sender == pending[1].form.sender
              message_from_usr == <<format(pending[1].form.message), repr(cafe)>>
              mail == send_email(sender, message_from_usr, outcome)
          IN  Answer([pending[1] EXCEPT !.outcome = outcome], table, <<>>,
                     "302:get_all_cafes", NoPayload, NoShown,
                     mail.flashes \o
                         <<Flash("success", "report sent", cafe.name)>>,
                     mail.outbox,
                     {"delete", "report", "valid", "send_email"})

Next ==
    \/ home
    \/ get_random_cafe
    \/ get_all_cafes
    \/ get_cafe_at_location
    \/ add_cafe
    \/ update_cafe
    \/ update_cafe_read
    \/ update_cafe_write
    \/ update_cafe_answer
    \/ update_cafe_except
    \/ delete_cafe
    \/ delete_cafe_commit
    \/ delete_cafe_send
    \/ teardown_request

Spec == Init /\ [][Next]_vars

\* ------------------------------------------------------------ the claims
InTrace(branch) == branch \in trace
Redirected == resp = "302:get_all_cafes"

\* The rows of t with this identifier.
TargetIn(t, id) == SelectSeq(t, LAMBDA r : r.id = id)

\* The rows of t with another identifier.
Others(t, id) == SelectSeq(t, LAMBDA r : r.id # id)

\* A row without its identifier.
Fields(row) == [c \in FormFields |-> row[c]]

\* The step was an add whose submission passed the check of line 17 and
\* validation.
ValidAdd ==
    /\ req.op = "add_cafe"
    /\ req.method = "POST"
    /\ csrf_protect(req.method, req.form, req.extra) = "ok"
    /\ AddCafeForm_validate([f \in FormFields |-> req.form[f]])

\* The row a valid add is to store, without its identifier.
Submitted ==
    [name |-> req.form.name,
     map_url |-> req.form.map_url,
     img_url |-> req.form.img_url,
     location |-> req.form.location,
     seats |-> req.form.seats,
     has_toilet |-> req.form.has_toilet = Text("YES"),
     has_wifi |-> req.form.has_wifi = Text("YES"),
     has_sockets |-> req.form.has_sockets = Text("YES"),
     can_take_calls |-> req.form.can_take_calls = Text("YES"),
     coffee_price |-> <<"£">> \o req.form.coffee_price]

\* C1: every add submission that passes validation adds exactly one row,
\* whose fields are the submission's (amenities as Booleans, the glyph in
\* front of the price), and redirects to the listing.
C1_AddInsertsSubmission ==
    ValidAdd =>
        /\ Len(table) = Len(old) + 1
        /\ SubSeq(table, 1, Len(old)) = old
        /\ Fields(table[Len(table)]) = Submitted
        /\ Redirected

\* The step was the write of an update whose form passed validation; the
\* request had loaded req.cafe.
ValidUpdate ==
    /\ req.op = "update_cafe"
    /\ InTrace("valid")
    /\ req.cafe # <<>>
    /\ req.method = "POST"
    /\ UpdateCafeForm_validate(UpdateCafeForm(req.method, req.form, req.cafe[1]))

\* The value the update form holds for a field: the submitted one, or the
\* loaded record's where the submission carries none.
FormValue(f) ==
    IF req.form[f] # None THEN req.form[f]
    ELSE IF f \in Amenities
         THEN (IF req.cafe[1][f] THEN Text("True") ELSE Text("False"))
         ELSE req.cafe[1][f]

\* The row a valid update submits, without its identifier.
SubmittedUpdate ==
    [f \in FormFields |->
        IF f \in Amenities THEN FormValue(f) = Text("YES") ELSE FormValue(f)]

\* The submitted name is the name of a row other than the target.
NameTaken ==
    \E i \in 1..Len(old) :
       /\ old[i].id # req.cafe[1].id
       /\ old[i].name = SubmittedUpdate.name

\* The target row is in the table as the request loaded it.
Undisturbed == TargetIn(old, req.cafe[1].id) = req.cafe

\* The target row holds the submitted values and no other row has changed.
TargetUpdated ==
    /\ Len(TargetIn(table, req.cafe[1].id)) = 1
    /\ Fields(TargetIn(table, req.cafe[1].id)[1]) = SubmittedUpdate
    /\ Others(table, req.cafe[1].id) = Others(old, req.cafe[1].id)
    /\ Len(table) = Len(old)

\* C2 as stated: after every update submission that passes validation the
\* target row holds the submitted values and every other row is unchanged.
C2_UpdateAlwaysStores == ValidUpdate => TargetUpdated

\* The columns in which the submission differs from the row as the request
\* read it.
Differing == {c \in FormFields : SubmittedUpdate[c] # req.cafe[1][c]}

\* C2: after an update submission that passes validation no row is added or
\* removed and every row but the one that holds the target identifier is
\* unchanged.  When no row holds the identifier any more, or when the
\* submitted name differs from the name the request read and is another
\* row's name, the table is unchanged.  Otherwise the row that holds the
\* identifier takes the submitted value in each column where that differs
\* from the value the request read, and keeps its own in every other
\* column; so a target row that is still as the request read it, submitted
\* with a name that is not another row's, holds the submitted values.
C2_UpdateStoresWhenUndisturbed ==
    ValidUpdate =>
        LET id == req.cafe[1].id
            now == TargetIn(old, id)
        IN  /\ Others(table, id) = Others(old, id)
            /\ Len(table) = Len(old)
            /\ (Undisturbed /\ ~NameTaken) => TargetUpdated
            /\ IF now = <<>> \/ ("name" \in Differing /\ NameTaken)
               THEN table = old
               ELSE \A c \in FormFields :
                       TargetIn(table, id)[1][c] =
                          IF c \in Differing THEN SubmittedUpdate[c]
                          ELSE now[1][c]

\* A valid update stored new values in one of two rows.
C2_Witness ==
    /\ ValidUpdate
    /\ Undisturbed
    /\ ~NameTaken
    /\ Len(old) = 2
    /\ table # old
    /\ req.wrote
    /\ Redirected

\* The step was delete_cafe with the admin key in the submission.
KeyGiven == req.op = "delete_cafe" /\ req.form.api_key = Text("TopSecretAPIKey")

\* The step was delete_cafe for a request that passed the check of line 17.
PastCheck ==
    /\ req.op = "delete_cafe"
    /\ csrf_protect(req.method, req.form, req.extra) = "ok"

\* The step was delete_cafe for a POST or DELETE that carries no token: not
\* in its form, not in a header.
NoToken ==
    /\ req.op = "delete_cafe"
    /\ req.method \in {"POST", "DELETE"}
    /\ \A given \in {req.form.csrf_token, req.extra.prefixed,
                     req.extra.x_csrftoken, req.extra.x_csrf_token} :
          given \in {<<"None">>, <<>>}

\* The row the request is for: the one it read, or, when it read none, the
\* one the table held.
Existing == IF req.cafe # <<>> THEN req.cafe ELSE TargetIn(old, req.cafe_id)

\* C3 as stated: with the admin key, a request for an existing row removes
\* exactly that row, sends no mail and redirects at once; with another key
\* or none, no row is removed and the request is handled as a closure
\* report.
C3_DeleteByKey ==
    /\ (KeyGiven /\ Existing # <<>>) =>
          /\ TargetIn(old, req.cafe_id) = Existing
          /\ table = Others(old, req.cafe_id)
          /\ Len(table) = Len(old) - 1
          /\ outbox = <<>>
          /\ ~InTrace("report")
          /\ Redirected
    /\ (req.op = "delete_cafe" /\ ~KeyGiven) =>
          /\ table = old
          /\ InTrace("report")
          /\ ~InTrace("key")

\* C3: a request with the admin key that passed the check of line 17 and
\* read a row removes whichever row holds the identifier at the time of its
\* delete and no other, sends no mail and redirects at once: exactly the
\* row it read when that is still in the table, none when another request
\* removed it in between; one that read no row is answered 404 and removes
\* none.  A request that passed the check with another key or none removes
\* no row and is handled as a closure report.  A request that did not pass
\* the check removes no row and sends no mail, and a POST or DELETE without
\* a token does not pass it.
C3_DeleteByKeyPastCheck ==
    /\ (PastCheck /\ KeyGiven) =>
          /\ table = Others(old, req.cafe_id)
          /\ outbox = <<>>
          /\ ~InTrace("report")
          /\ IF req.cafe = <<>>
             THEN resp = "404" /\ table = old
             ELSE /\ Redirected
                  /\ TargetIn(old, req.cafe_id) = req.cafe =>
                        Len(table) = Len(old) - 1
                  /\ TargetIn(old, req.cafe_id) = <<>> => table = old
    /\ (PastCheck /\ ~KeyGiven) =>
          /\ table = old
          /\ InTrace("report")
          /\ ~InTrace("key")
    /\ (req.op = "delete_cafe" /\ ~PastCheck) =>
          /\ table = old
          /\ outbox = <<>>
          /\ ~Redirected
    /\ NoToken => (~PastCheck /\ resp = "400")

\* The admin key, sent by DELETE with the token and a report beside it,
\* removed the row it read, one of two.
C3_Witness ==
    /\ KeyGiven
    /\ PastCheck
    /\ req.method = "DELETE"
    /\ req.form.sender # None
    /\ req.cafe # <<>>
    /\ TargetIn(old, req.cafe_id) = req.cafe
    /\ Len(old) = 2
    /\ Len(table) = 1
    /\ Redirected

\* C4: in every reachable state names are unique, identifiers are unique,
\* and every column but coffee_price is set in every row.
C4_SchemaInvariant ==
    /\ \A i, j \in 1..Len(table) :
          i # j => (table[i].name # table[j].name /\ table[i].id # table[j].id)
    /\ \A i \in 1..Len(table) :
          /\ \A c \in {"name", "map_url", "img_url", "location", "seats"} :
                table[i][c] # None
          /\ \A c \in Amenities : table[i][c] \in BOOLEAN
          /\ table[i].id \in 1..MaxId

\* A write with a taken name was refused while the table held two rows.
C4_Witness ==
    /\ Len(table) = 2
    /\ InTrace("raised")
    /\ req.op \in {"add_cafe", "update_cafe"}
    /\ \E i \in 1..Len(old) : old[i].name = req.form.name

\* The rows of the table found whose location is the queried text.
Matches == SelectSeq(old, LAMBDA r : r.location = req.loc)

\* C5: search answers with the not-found payload (status 200) when no row
\* is at exactly the queried location, otherwise with every column of the
\* first such row; it never changes the table.
C5_SearchFirstMatch ==
    req.op = "get_cafe_at_location" =>
        /\ table = old
        /\ resp = "200:json"
        /\ Matches = <<>> => payload = [kind |-> "error"]
        /\ Matches # <<>> =>
              /\ payload.kind = "cafe"
              /\ payload.cafe = Matches[1]
              /\ DOMAIN payload.cafe = Columns

\* Two rows were at the queried location and the first was returned.
C5_Witness ==
    /\ req.op = "get_cafe_at_location"
    /\ Len(Matches) = 2
    /\ Matches[1] # Matches[2]
    /\ payload = [kind |-> "cafe", cafe |-> old[1]]

\* C6: the random endpoint returns a row of the table when there is one,
\* and a defined error outcome, not an unhandled exception, when there is
\* none.
C6_RandomDefinedOnEmpty ==
    req.op = "get_random_cafe" =>
        /\ old # <<>> =>
              /\ payload.kind = "cafe"
              /\ \E i \in 1..Len(table) : payload.cafe = table[i]
        /\ old = <<>> => ~InTrace("raised")

\* The text begins with the currency glyph.
HasGlyph(s) == s # <<>> /\ s[1] = "£"

\* The step was the write of a submitted update, every field of which but
\* the price passes its rules.
PriceDecides ==
    /\ req.op = "update_cafe"
    /\ req.cafe # <<>>
    /\ req.method = "POST"
    /\ UpdateCafeForm_validate(
          [UpdateCafeForm(req.method, req.form, req.cafe[1])
              EXCEPT !.coffee_price = <<"£", "1">>])

\* C7: a submitted update whose price does not begin with the glyph fails
\* validation and writes nothing; every row an add stores has the glyph in
\* front of the submitted price, also when that begins with the glyph.
C7_PriceGlyph ==
    /\ (PriceDecides /\ ~HasGlyph(FormValue("coffee_price"))) =>
          /\ resp = "200:edit.html"
          /\ InTrace("invalid")
          /\ table = old
    /\ (ValidAdd /\ Len(table) = Len(old) + 1) =>
          LET stored == table[Len(table)].coffee_price
          IN  /\ HasGlyph(stored)
              /\ Tail(stored) = req.form.coffee_price
              /\ HasGlyph(req.form.coffee_price) => HasGlyph(Tail(stored))

\* An update was refused for its price alone, on a table holding a price
\* that add stored with the glyph doubled.
C7_Witness ==
    /\ PriceDecides
    /\ req.form.coffee_price = Text("3.50")
    /\ resp = "200:edit.html"
    /\ \E i \in 1..Len(table) :
          /\ Len(table[i].coffee_price) = 6
          /\ HasGlyph(table[i].coffee_price)
          /\ HasGlyph(Tail(table[i].coffee_price))

\* The step handed a validated closure report to the mail relay.
ReportSent == req.op = "delete_cafe" /\ req.outcome \in SmtpOutcomes

\* C8: a validated closure report for an existing row, without the admin
\* key, ends in a redirect to the listing whatever the mail session does; a
\* failure of the session shows as a danger notice only; the table is
\* unchanged.
C8_ReportAlwaysRedirects ==
    ReportSent =>
        /\ Redirected
        /\ table = old
        /\ req.outcome # "sent" =>
              \E i \in 1..Len(flashes) : flashes[i].category = "danger"
        /\ req.outcome = "sent" =>
              /\ Len(outbox) = 1
              /\ \A i \in 1..Len(flashes) : flashes[i].category = "success"
        /\ flashes[Len(flashes)].text = "report sent"

\* The relay refused the login; the report still redirected.
C8_Witness ==
    /\ ReportSent
    /\ req.outcome = "login"
    /\ outbox = <<>>
    /\ Redirected
    /\ Len(flashes) = 2

\* The values the form would take from the record as persisted.
Persisted ==
    LET row == TargetIn(table, req.cafe[1].id)[1]
    IN  [f \in FormFields |->
            IF f \in Amenities
            THEN (IF row[f] THEN Text("True") ELSE Text("False"))
            ELSE row[f]]

\* C9: when a validated update cannot be written because its name is
\* another row's, the write is rolled back, the error shows as a notice,
\* there is no redirect, and the form is shown again with the values of the
\* persisted record.
C9_WriteFailureRedisplays ==
    (ValidUpdate /\ Undisturbed /\ NameTaken) =>
        /\ table = old
        /\ ~Redirected
        /\ resp = "200:edit.html"
        /\ \E i \in 1..Len(flashes) : flashes[i].category = "danger"
        /\ shown.kind = "form"
        /\ \A f \in FormFields : shown.data[f] = Persisted[f]

\* The request ended in an error: it was refused, its form failed
\* validation, its row was not found, or an exception was raised.
ErrorOutcome ==
    \/ InTrace("csrf") \/ InTrace("invalid") \/ InTrace("404")
    \/ InTrace("raised")
    \/ resp \in {"400", "404", "200:add.html", "200:edit.html",
                 "200:report.html", "500:IndexError", "500:IntegrityError",
                 "500:PendingRollbackError", "500:ObjectDeletedError"}

\* C10: a request that ends in an error has written nothing and leaves the
\* table as it found it, and no mail is sent: a request that is refused, a
\* form that fails validation, a write that fails, a row not found.
C10_ErrorsLeaveTable ==
    ErrorOutcome => (table = old /\ ~req.wrote /\ outbox = <<>>)

====
